---- MODULE Spec2Model ----
(***************************************************************************)
(* A model of karolba/pytris (src/tetris.py, src/client.py): the Game      *)
(* engine (board, falling piece, gravity, moves, rotation, line elision,   *)
(* scoring), the RandomPieceGenerator, and the two-peer board/ownership    *)
(* frames that tetris.py exchanges through client.py.                      *)
(*                                                                         *)
(* Every piece of engine state is kept per peer, so that the same actions  *)
(* describe the single-player engine (peer 1 alone, no network) and the    *)
(* two-peer session.                                                       *)
(***************************************************************************)
EXTENDS Integers, Sequences, FiniteSets, TLC

\* ------------------------------------------------------------------------
\* Geometry.  The program plays on a 10 x 20 board; the model plays on a
\* smaller one so that the reachable states can be enumerated.
GAME_WIDTH == 4
GAME_HEIGHT == 5

PIECE_STARTING_WIDTH == 4
PIECE_STARTING_HEIGHT == 2

\* how far the model lets an engine's tick counter run, and how many pieces
\* one engine may draw
MaxFrame == 43
MaxPieces == 2
\* Between two gravity steps a tick only counts frames, so a key event has
\* the same effect at every frame in between.  The model delivers key events
\* only while frame % frames_per_gridcell <= KeyWindow: right before a
\* gravity step and right after it.
KeyWindow == 1
\* the same two bounds where only gravity moves and locks the pieces, and in
\* the two-peer session
MaxFrameGravity == 74
MaxFrameMulti == 38
MaxPiecesMulti == 1
\* two-peer session: how many frames may wait in one direction of the relay,
\* and how many ticks one peer's 20 ms timer may run ahead of the other's
MaxInFlight == 2
MaxSkew == 1
\* how many lines may wait in the relay when another publisher on the topic
\* adds one
MaxForeign == 1
\* the generator on its own: how many next() calls are followed
MaxNext == 16

Rows == 0 .. (GAME_HEIGHT - 1)
Cols == 0 .. (GAME_WIDTH - 1)

Peers == {1, 2}
Other(p) == 3 - p

\* ------------------------------------------------------------------------
\* The piece catalog (tetris.py PIECES).  arrangement[h+1][w+1]: 0 absent,
\* 1 body, 2 center.
None == -1

PIECES ==
  [id \in 0 .. 6 |->
     CASE id = 0 -> [arrangement |-> << <<1, 2, 1, 1>>, <<0, 0, 0, 0>> >>,
                     long_tetrimono_rotation |-> TRUE,
                     can_be_first |-> TRUE, no_rotation |-> FALSE, id |-> 0]
       [] id = 1 -> [arrangement |-> << <<1, 2, 1, 0>>, <<0, 0, 1, 0>> >>,
                     long_tetrimono_rotation |-> FALSE,
                     can_be_first |-> TRUE, no_rotation |-> FALSE, id |-> 1]
       [] id = 2 -> [arrangement |-> << <<1, 2, 1, 0>>, <<1, 0, 0, 0>> >>,
                     long_tetrimono_rotation |-> FALSE,
                     can_be_first |-> TRUE, no_rotation |-> FALSE, id |-> 2]
       [] id = 3 -> [arrangement |-> << <<1, 1, 0, 0>>, <<1, 2, 0, 0>> >>,
                     long_tetrimono_rotation |-> FALSE,
                     can_be_first |-> TRUE, no_rotation |-> TRUE, id |-> 3]
       [] id = 4 -> [arrangement |-> << <<0, 1, 1, 0>>, <<1, 2, 0, 0>> >>,
                     long_tetrimono_rotation |-> FALSE,
                     can_be_first |-> FALSE, no_rotation |-> FALSE, id |-> 4]
       [] id = 5 -> [arrangement |-> << <<1, 2, 1, 0>>, <<0, 1, 0, 0>> >>,
                     long_tetrimono_rotation |-> FALSE,
                     can_be_first |-> TRUE, no_rotation |-> FALSE, id |-> 5]
       [] id = 6 -> [arrangement |-> << <<1, 2, 0, 0>>, <<0, 1, 1, 0>> >>,
                     long_tetrimono_rotation |-> FALSE,
                     can_be_first |-> FALSE, no_rotation |-> FALSE, id |-> 6]]

PieceIds == DOMAIN PIECES

\* ------------------------------------------------------------------------
\* Blots (tetris.py BlotType, Blot).  A blot refers to its piece by id.
Blot(type, piece, is_center_blot) ==
  [type |-> type, piece |-> piece, center |-> is_center_blot]

EmptyBlot == Blot("EMPTY", None, FALSE)

is_empty(blot) == blot.type = "EMPTY"
is_falling(blot) == blot.type = "FALLING"
is_placed(blot) == blot.type = "PLACED"
is_center_blot(blot) == blot.center

to_placed_blot(blot) == Blot("PLACED", blot.piece, FALSE)

should_rotate(blot) == blot.piece # None /\ ~PIECES[blot.piece].no_rotation

\* Game.__init__: GAME_HEIGHT rows of GAME_WIDTH empty blots
EmptyRow == [c \in Cols |-> EmptyBlot]
EmptyBoard == [r \in Rows |-> EmptyRow]

\* board[row][col] = blot
Put(b, row, col, blot) == [b EXCEPT ![row][col] = blot]

\* all_blots: the coordinates in row-major order, as a sequence
all_blots == [i \in 1 .. (GAME_HEIGHT * GAME_WIDTH) |->
                << (i - 1) \div GAME_WIDTH, (i - 1) % GAME_WIDTH >>]

has_falling_tetrimono(b) == \E r \in Rows, c \in Cols : is_falling(b[r][c])

\* ------------------------------------------------------------------------
\* try_put: writes iff in bounds and empty
try_put(b, row, col, blot) ==
  IF ~(0 <= row /\ row < GAME_HEIGHT) \/ ~(0 <= col /\ col < GAME_WIDTH)
    THEN [ok |-> FALSE, board |-> b]
  ELSE IF ~is_empty(b[row][col])
    THEN [ok |-> FALSE, board |-> b]
  ELSE [ok |-> TRUE, board |-> Put(b, row, col, blot)]

\* put_or_die: raises GameOverException iff the target is not empty
put_or_die(b, row, col, blot) ==
  IF ~is_empty(b[row][col])
    THEN [died |-> TRUE, board |-> b]
  ELSE [died |-> FALSE, board |-> Put(b, row, col, blot)]

\* put_new_tetrimono, the placement loop: the cells of the arrangement in the
\* order the two nested loops visit them, as <<row, col, is_center>>
SpawnCellAt(piece, k) ==
  LET h == (k - 1) \div PIECE_STARTING_WIDTH
      w == (k - 1) % PIECE_STARTING_WIDTH
      start_w == (GAME_WIDTH - Len(PIECES[piece].arrangement[1])) \div 2
  IN  << h, start_w + w, PIECES[piece].arrangement[h + 1][w + 1] >>

RECURSIVE SpawnLoop(_, _, _)
SpawnLoop(b, piece, k) ==
  IF k > PIECE_STARTING_HEIGHT * PIECE_STARTING_WIDTH
    THEN [died |-> FALSE, board |-> b]
  ELSE LET cell == SpawnCellAt(piece, k)
       IN  IF cell[3] = 0
             THEN SpawnLoop(b, piece, k + 1)
           ELSE LET r == put_or_die(b, cell[1], cell[2],
                                    Blot("FALLING", piece, cell[3] = 2))
                IN  IF r.died THEN r ELSE SpawnLoop(r.board, piece, k + 1)

\* ------------------------------------------------------------------------
\* falling_freeze: every falling blot becomes a placed blot of the same piece
falling_freeze(b) ==
  [r \in Rows |-> [c \in Cols |->
     IF is_falling(b[r][c]) THEN to_placed_blot(b[r][c]) ELSE b[r][c]]]

\* do_fall, the loop of lines 427-437.  FallScan is the order in which
\* `for row in reversed(range(GAME_HEIGHT - 1)): for col in range(GAME_WIDTH)`
\* visits the cells.  The loop body acts on falling blots only and writes
\* only the visited cell and the cell below it, in a row the scan has left
\* already, so the blots it acts on are the ones falling when it starts.
FallScan ==
  [k \in 1 .. ((GAME_HEIGHT - 1) * GAME_WIDTH) |->
     << (GAME_HEIGHT - 2) - ((k - 1) \div GAME_WIDTH), (k - 1) % GAME_WIDTH >>]

\* the scan of do_fall run from the top row down
FallingInScanOrderTopDown(b) ==
  SelectSeq([k \in 1 .. Len(FallScan) |-> FallScan[Len(FallScan) + 1 - k]],
            LAMBDA rc : is_falling(b[rc[1]][rc[2]]))

FallingInScanOrder(b) ==
  SelectSeq(FallScan, LAMBDA rc : is_falling(b[rc[1]][rc[2]]))

\* FallLoop with the rollback forgotten: freezes the half-moved board
RECURSIVE FallLoopNoRollback(_, _, _, _)
FallLoopNoRollback(b, board_before_fall, falling, k) ==
  IF k > Len(falling)
    THEN [locked |-> FALSE, died |-> FALSE, board |-> b]
  ELSE LET row == falling[k][1]
           col == falling[k][2]
       IN  IF is_placed(b[row + 1][col])
             THEN [locked |-> TRUE, died |-> FALSE,
                   board |-> falling_freeze(b)]
           ELSE LET r == put_or_die(b, row + 1, col, b[row][col])
                IN  IF r.died
                      THEN [locked |-> FALSE, died |-> TRUE, board |-> b]
                    ELSE FallLoopNoRollback(Put(r.board, row, col, EmptyBlot),
                                            board_before_fall, falling, k + 1)

\* FallLoop without the test for a placed blot below the falling one
RECURSIVE FallLoopNoPlacedCheck(_, _, _, _)
FallLoopNoPlacedCheck(b, board_before_fall, falling, k) ==
  IF k > Len(falling)
    THEN [locked |-> FALSE, died |-> FALSE, board |-> b]
  ELSE LET row == falling[k][1]
           col == falling[k][2]
           r == put_or_die(b, row + 1, col, b[row][col])
       IN  IF r.died
             THEN [locked |-> FALSE, died |-> TRUE, board |-> b]
           ELSE FallLoopNoPlacedCheck(Put(r.board, row, col, EmptyBlot),
                                      board_before_fall, falling, k + 1)

RECURSIVE FallLoop(_, _, _, _)
FallLoop(b, board_before_fall, falling, k) ==
  IF k > Len(falling)
    THEN [locked |-> FALSE, died |-> FALSE, board |-> b]
  ELSE LET row == falling[k][1]
           col == falling[k][2]
       IN  IF is_placed(b[row + 1][col])
             THEN [locked |-> TRUE, died |-> FALSE,
                   board |-> falling_freeze(board_before_fall)]
           ELSE LET r == put_or_die(b, row + 1, col, b[row][col])
                IN  IF r.died
                      THEN [locked |-> FALSE, died |-> TRUE, board |-> b]
                    ELSE FallLoop(Put(r.board, row, col, EmptyBlot),
                                  board_before_fall, falling, k + 1)

\* do_fall: returns whether the falling piece froze (locked); died models the
\* GameOverException of put_or_die leaving the method
do_fall(b, master, even_if_slave) ==
  IF ~master /\ ~even_if_slave
    THEN [locked |-> FALSE, died |-> FALSE, board |-> b]
  ELSE IF \E col \in Cols : is_falling(b[GAME_HEIGHT - 1][col])
    THEN [locked |-> TRUE, died |-> FALSE, board |-> falling_freeze(b)]
  ELSE FallLoop(b, b, FallingInScanOrder(b), 1)

\* ------------------------------------------------------------------------
\* falling_move_left / falling_move_right
\* MoveLeftRefused with the check for a placed neighbour forgotten
MoveLeftRefusedWallOnly(b) ==
  \E r \in Rows : is_falling(b[r][0])

MoveLeftRefused(b) ==
  \E r \in Rows :
     \/ is_falling(b[r][0])
     \/ \E c \in 0 .. (GAME_WIDTH - 2) :
           is_placed(b[r][c]) /\ is_falling(b[r][c + 1])

MoveRightRefused(b) ==
  \E r \in Rows :
     \/ is_falling(b[r][GAME_WIDTH - 1])
     \/ \E c \in 0 .. (GAME_WIDTH - 2) :
           is_falling(b[r][c]) /\ is_placed(b[r][c + 1])

\* the commit loop over one row, `for col in range(GAME_WIDTH)`;
\* row[col - 1] with Python's index wrap-around
RECURSIVE ShiftRowLeft(_, _)
ShiftRowLeft(row, col) ==
  IF col > GAME_WIDTH - 1 THEN row
  ELSE IF is_falling(row[col])
    THEN ShiftRowLeft([row EXCEPT ![(col - 1) % GAME_WIDTH] = row[col],
                                  ![col] = EmptyBlot], col + 1)
  ELSE ShiftRowLeft(row, col + 1)

\* ShiftRowRight with `row[col] = Blot(BlotType.EMPTY)` forgotten
RECURSIVE ShiftRowRightKeepsSource(_, _)
ShiftRowRightKeepsSource(row, col) ==
  IF col < 0 THEN row
  ELSE IF is_falling(row[col]) /\ col + 1 \in Cols
    THEN ShiftRowRightKeepsSource([row EXCEPT ![col + 1] = row[col]], col - 1)
  ELSE ShiftRowRightKeepsSource(row, col - 1)

\* the commit loop over one row, `for col in reversed(range(GAME_WIDTH))`
RECURSIVE ShiftRowRight(_, _)
ShiftRowRight(row, col) ==
  IF col < 0 THEN row
  ELSE IF is_falling(row[col]) /\ col + 1 \in Cols
    THEN ShiftRowRight([row EXCEPT ![col + 1] = row[col],
                                   ![col] = EmptyBlot], col - 1)
  ELSE ShiftRowRight(row, col - 1)

falling_move_left(b) ==
  IF MoveLeftRefused(b) THEN b
  ELSE [r \in Rows |-> ShiftRowLeft(b[r], 0)]

falling_move_right(b) ==
  IF MoveRightRefused(b) THEN b
  ELSE [r \in Rows |-> ShiftRowRight(b[r], GAME_WIDTH - 1)]

\* ------------------------------------------------------------------------
\* falling_get_center_blot: <<row, col>> of the first falling center blot in
\* row-major order, or <<>> for the (0, 0, None) result
FallingCenters(b) ==
  SelectSeq(all_blots, LAMBDA rc : is_falling(b[rc[1]][rc[2]])
                                   /\ is_center_blot(b[rc[1]][rc[2]]))

falling_get_center_blot(b) ==
  IF ~has_falling_tetrimono(b) THEN << >>
  ELSE IF Len(FallingCenters(b)) = 0 THEN << >>
  ELSE FallingCenters(b)[1]

\* falling_rotate, first loop: the falling non-center blots, row-major
FallingNonCenter(b) ==
  SelectSeq(all_blots, LAMBDA rc : is_falling(b[rc[1]][rc[2]])
                                   /\ ~is_center_blot(b[rc[1]][rc[2]]))

RemoveFallingNonCenter(b) ==
  [r \in Rows |-> [c \in Cols |->
     IF is_falling(b[r][c]) /\ ~is_center_blot(b[r][c])
       THEN EmptyBlot ELSE b[r][c]]]

\* RotateLoop with `self.board = board_copy` forgotten: a failed try_put
\* leaves the blots placed so far
RECURSIVE RotateLoopNoRollback(_, _, _, _, _, _)
RotateLoopNoRollback(b, board_copy, all_falling, center, rotation, i) ==
  IF i > Len(all_falling) THEN b
  ELSE LET row == all_falling[i][1]
           col == all_falling[i][2]
           rotated_row == center[1] + rotation * (col - center[2])
           rotated_col == center[2] - rotation * (row - center[1])
           r == try_put(b, rotated_row, rotated_col, board_copy[row][col])
       IN  IF ~r.ok THEN b
           ELSE RotateLoopNoRollback(r.board, board_copy, all_falling, center,
                                     rotation, i + 1)

\* RotateLoop with the sign of the column offset lost: it mirrors the piece
RECURSIVE RotateLoopMirrored(_, _, _, _, _, _)
RotateLoopMirrored(b, board_copy, all_falling, center, rotation, i) ==
  IF i > Len(all_falling) THEN b
  ELSE LET row == all_falling[i][1]
           col == all_falling[i][2]
           rotated_row == center[1] + rotation * (col - center[2])
           rotated_col == center[2] + rotation * (row - center[1])
           r == try_put(b, rotated_row, rotated_col, board_copy[row][col])
       IN  IF ~r.ok THEN board_copy
           ELSE RotateLoopMirrored(r.board, board_copy, all_falling, center,
                                   rotation, i + 1)

\* falling_rotate, second loop: place the rotated blots one by one, give the
\* copy back as soon as one try_put fails
RECURSIVE RotateLoop(_, _, _, _, _, _)
RotateLoop(b, board_copy, all_falling, center, rotation, i) ==
  IF i > Len(all_falling) THEN b
  ELSE LET row == all_falling[i][1]
           col == all_falling[i][2]
           row_center_offset == row - center[1]
           col_center_offset == col - center[2]
           rotated_row == center[1] + rotation * col_center_offset
           rotated_col == center[2] - rotation * row_center_offset
           r == try_put(b, rotated_row, rotated_col, board_copy[row][col])
       IN  IF ~r.ok THEN board_copy
           ELSE RotateLoop(r.board, board_copy, all_falling, center,
                           rotation, i + 1)

falling_rotate(b, rotation) ==
  LET center == falling_get_center_blot(b)
  IN  IF center = << >> THEN b
      ELSE IF ~should_rotate(b[center[1]][center[2]]) THEN b
      ELSE RotateLoop(RemoveFallingNonCenter(b), b, FallingNonCenter(b),
                      center, rotation, 1)

\* ------------------------------------------------------------------------
\* RandomPieceGenerator.  random.choice and random.shuffle are choices the
\* model draws from Seeds and Shuffles.
Seeds == {id \in PieceIds : PIECES[id].can_be_first}

\* the outcomes of shuffle_out_of_place(PIECES) the model explores
Shuffles ==
  { <<0, 6, 4, 2, 1, 5, 3>>,
    <<4, 1, 3, 6, 0, 2, 5>> }

\* _fill_buffer_if_needed putting the new pieces in front of the buffer
fill_buffer_in_front(buffer) ==
  IF Len(buffer) > 2 THEN {buffer}
  ELSE {s \o buffer : s \in Shuffles}

\* _fill_buffer_if_needed refilling only an empty buffer
fill_buffer_if_empty(buffer) ==
  IF Len(buffer) > 0 THEN {buffer}
  ELSE {buffer \o s : s \in Shuffles}

\* _fill_buffer_if_needed: the buffers it can leave
fill_buffer_if_needed(buffer) ==
  IF Len(buffer) > 2 THEN {buffer}
  ELSE {buffer \o s : s \in Shuffles}

\* RandomPieceGenerator.__init__
NewGeneratorBuffers ==
  UNION {fill_buffer_if_needed(<<seed>>) : seed \in Seeds}

\* next: the (piece, buffer afterwards) pairs it can produce
GeneratorNext(buffer) ==
  {[piece |-> b[1], buffer |-> Tail(b)] : b \in fill_buffer_if_needed(buffer)}

peek(buffer) == buffer[1]

\* ------------------------------------------------------------------------
\* Game: one engine as a record of the fields of tetris.py's Game object.
\* exception is the exception that left the main loop ("None": still running).
NoGenerator == [rows |-> << >>, x |-> 0]

NewGame(master, multi, buffer) ==
  [board |-> EmptyBoard,
   next_pieces_buffer |-> buffer,
   level |-> 0,
   points |-> 0,
   frame |-> 0,
   lines |-> 0,
   running_elision_animation |-> FALSE,
   elision_animation_generator |-> NoGenerator,
   send_to_network |-> multi,
   master |-> master,
   exception |-> "None"]

Raise(g, e) == [g EXCEPT !.exception = e]
Running(g) == g.exception = "None"

level_to_frames ==
  [l \in 0 .. 18 |->
     CASE l = 0 -> 36 [] l = 1 -> 32 [] l = 2 -> 29 [] l = 3 -> 25
       [] l = 4 -> 22 [] l = 5 -> 18 [] l = 6 -> 15 [] l = 7 -> 11
       [] l = 8 -> 7  [] l = 9 -> 5  [] l \in {10, 11, 12} -> 4
       [] l \in {13, 14, 15} -> 3    [] l \in {16, 17, 18} -> 2]

frames_per_gridcell(g) ==
  IF g.level > 18 THEN 1 ELSE level_to_frames[g.level]

\* shadow_location: falls the piece on the live board until it freezes and
\* puts the saved board back; a GameOverException on the way leaves the board
\* as the simulation had it
RECURSIVE ShadowFall(_)
ShadowFall(b) ==
  IF ~has_falling_tetrimono(b) THEN [died |-> FALSE, board |-> b]
  ELSE LET r == do_fall(b, TRUE, TRUE)
       IN  IF r.died THEN [died |-> TRUE, board |-> r.board]
           ELSE ShadowFall(r.board)

\* display: drawing changes no engine state unless shadow_location raises
display(g) ==
  LET shadow == ShadowFall(g.board)
  IN  IF shadow.died
        THEN Raise([g EXCEPT !.board = shadow.board], "GameOverException")
      ELSE g

\* put_new_tetrimono: the engines it can leave
put_new_tetrimono(g) ==
  IF ~g.master THEN {g}
  ELSE { LET r == SpawnLoop(g.board, n.piece, 1)
             g1 == [g EXCEPT !.next_pieces_buffer = n.buffer,
                             !.board = r.board]
         IN  IF r.died THEN Raise(g1, "GameOverException") ELSE g1
         : n \in GeneratorNext(g.next_pieces_buffer) }

add_points(g, points) == [g EXCEPT !.points = g.points + points]

multiplier_for_line_count ==
  [n \in 1 .. 4 |-> CASE n = 1 -> 40 [] n = 2 -> 100 [] n = 3 -> 300
                      [] n = 4 -> 1200]

\* add_points_for_elision with the level recomputed before the points are
\* added
add_points_for_elision_level_after(g, line_count) ==
  IF line_count \notin DOMAIN multiplier_for_line_count
    THEN Raise(g, "KeyError")
  ELSE LET g1 == [g EXCEPT !.lines = g.lines + line_count]
           g2 == [g1 EXCEPT !.level = g1.lines \div 10]
       IN  add_points(g2, multiplier_for_line_count[line_count]
                            * (g2.level + 1))

\* add_points_for_elision: the dictionary lookup raises KeyError first
add_points_for_elision(g, line_count) ==
  IF line_count \notin DOMAIN multiplier_for_line_count
    THEN Raise(g, "KeyError")
  ELSE LET g1 == add_points(g, multiplier_for_line_count[line_count]
                                 * (g.level + 1))
           g2 == [g1 EXCEPT !.lines = g1.lines + line_count]
       IN  [g2 EXCEPT !.level = g2.lines \div 10]

\* elide_tetrises, first loop: the full rows, top to bottom
full_row(b, row) ==
  Cardinality({c \in Cols : is_placed(b[row][c])}) = GAME_WIDTH

RowsToElide(b) ==
  SelectSeq([i \in 1 .. GAME_HEIGHT |-> i - 1], LAMBDA row : full_row(b, row))

\* elide_tetrises: scores at once, leaves the rows to the animation
elide_tetrises(g) ==
  IF ~g.master THEN g
  ELSE IF Len(RowsToElide(g.board)) = 0 THEN g
  ELSE LET g1 == add_points_for_elision(g, Len(RowsToElide(g.board)))
       IN  IF ~Running(g1) THEN g1
           ELSE [g1 EXCEPT !.running_elision_animation = TRUE,
                           !.elision_animation_generator =
                              [rows |-> RowsToElide(g.board), x |-> 0]]

\* animate_elision, the final loop: del board[rowid]; board.insert(0, empty)
DeleteRow(b, rowid) ==
  [r \in Rows |-> IF r = 0 THEN EmptyRow
                  ELSE IF r <= rowid THEN b[r - 1] ELSE b[r]]

\* DeleteRows over the rows bottom to top
RECURSIVE DeleteRowsDescending(_, _, _)
DeleteRowsDescending(b, rows_to_elide, i) ==
  IF i > Len(rows_to_elide) THEN b
  ELSE DeleteRowsDescending(
         DeleteRow(b, rows_to_elide[Len(rows_to_elide) + 1 - i]),
         rows_to_elide, i + 1)

RECURSIVE DeleteRows(_, _, _)
DeleteRows(b, rows_to_elide, i) ==
  IF i > Len(rows_to_elide) THEN b
  ELSE DeleteRows(DeleteRow(b, rows_to_elide[i]), rows_to_elide, i + 1)

\* animate_elision without its final loop: the full rows stay on the board
animate_elision_keeps_rows(g) ==
  LET gen == g.elision_animation_generator
  IN  IF gen.x < GAME_WIDTH
        THEN [stopped |-> FALSE,
              g |-> LET g1 == display(g)
                    IN  IF ~Running(g1) THEN g1
                        ELSE [g1 EXCEPT !.elision_animation_generator.x =
                                           gen.x + 1]]
      ELSE [stopped |-> TRUE,
            g |-> [g EXCEPT !.elision_animation_generator.x =
                               GAME_WIDTH + 1]]

\* one next() of the animate_elision generator: x counts the yields so far;
\* stopped is the StopIteration
animate_elision(g) ==
  LET gen == g.elision_animation_generator
  IN  IF gen.x < GAME_WIDTH
        THEN [stopped |-> FALSE,
              g |-> LET g1 == display(g)
                    IN  IF ~Running(g1) THEN g1
                        ELSE [g1 EXCEPT !.elision_animation_generator.x =
                                           gen.x + 1]]
      ELSE [stopped |-> TRUE,
            g |-> [g EXCEPT !.board = DeleteRows(g.board, gen.rows, 1),
                            !.elision_animation_generator.x =
                               GAME_WIDTH + 1]]

\* ------------------------------------------------------------------------
\* serialize / unserialize: the frame of bytes two engines exchange
\* BlotByte without the branch for the center blot
BlotByteNoCenter(blot) ==
  IF is_empty(blot) THEN 1
  ELSE IF is_falling(blot) THEN blot.piece + 30
  ELSE blot.piece + 2

\* BlotByte with the falling blots numbered from 10
BlotByteFallingFromTen(blot) ==
  IF is_empty(blot) THEN 1
  ELSE IF is_falling(blot) /\ is_center_blot(blot) THEN blot.piece + 60
  ELSE IF is_falling(blot) THEN blot.piece + 10
  ELSE blot.piece + 2

BlotByte(blot) ==
  IF is_empty(blot) THEN 1
  ELSE IF is_falling(blot) /\ is_center_blot(blot) THEN blot.piece + 60
  ELSE IF is_falling(blot) THEN blot.piece + 30
  ELSE blot.piece + 2

\* serialize with the ownership byte the wrong way round: 2 from a master
serialize_owner_inverted(g) ==
  << (IF g.master THEN 2 ELSE 1) >>
  \o [i \in 1 .. (GAME_HEIGHT * GAME_WIDTH) |->
        BlotByte(g.board[all_blots[i][1]][all_blots[i][2]])]

serialize(g) ==
  << (IF ~g.master THEN 2 ELSE 1) >>
  \o [i \in 1 .. (GAME_HEIGHT * GAME_WIDTH) |->
        BlotByte(g.board[all_blots[i][1]][all_blots[i][2]])]

\* PIECES[id] as Python indexes a list: negative ids count from the end
PieceIndex(id) == IF id < 0 THEN id + Cardinality(PieceIds) ELSE id

\* ByteBlot testing byte >= 30 before byte >= 60
ByteBlotWrongOrder(byte) ==
  IF byte = 1 THEN EmptyBlot
  ELSE IF byte >= 30 THEN Blot("FALLING", PieceIndex(byte - 30), FALSE)
  ELSE IF byte >= 60 THEN Blot("FALLING", PieceIndex(byte - 60), TRUE)
  ELSE Blot("PLACED", PieceIndex(byte - 2), FALSE)

ByteBlot(byte) ==
  IF byte = 1 THEN EmptyBlot
  ELSE IF byte >= 60 THEN Blot("FALLING", PieceIndex(byte - 60), TRUE)
  ELSE IF byte >= 30 THEN Blot("FALLING", PieceIndex(byte - 30), FALSE)
  ELSE Blot("PLACED", PieceIndex(byte - 2), FALSE)

\* the first byte whose piece id is outside PIECES raises IndexError, with
\* the cells before it already written
RECURSIVE UnserializeLoop(_, _, _)
UnserializeLoop(g, data, i) ==
  IF i > Len(data) THEN g
  ELSE LET row == (i - 1) \div GAME_WIDTH
           col == (i - 1) % GAME_WIDTH
           blot == ByteBlot(data[i])
       IN  IF blot.piece # None /\ blot.piece \notin PieceIds
             THEN Raise(g, "IndexError")
           ELSE IF row \notin Rows THEN Raise(g, "IndexError")
           ELSE UnserializeLoop([g EXCEPT !.board[row][col] = blot],
                                data, i + 1)

\* unserialize assigning the ownership flag instead of only raising it
unserialize_assigns_master(g, data) ==
  UnserializeLoop([g EXCEPT !.master = (data[1] = 2)], Tail(data), 1)

unserialize(g, data) ==
  LET should_be_master == data[1] = 2
      g1 == IF should_be_master THEN [g EXCEPT !.master = TRUE] ELSE g
  IN  UnserializeLoop(g1, Tail(data), 1)

\* check_network without the test of the length
check_network_any_length(g, line) ==
  LET g1 == unserialize(g, line)
  IN  IF Running(g1) THEN display(g1) ELSE g1

\* check_network with one line read from the client process (the trailing
\* newline already cut)
check_network(g, line) ==
  IF Len(line) # GAME_WIDTH * GAME_HEIGHT + 1 THEN g
  ELSE LET g1 == unserialize(g, line)
       IN  IF Running(g1) THEN display(g1) ELSE g1

\* ------------------------------------------------------------------------
\* do_tick
TickIdle(g) ==
  IF has_falling_tetrimono(g.board)
    THEN LET r == do_fall(g.board, g.master, FALSE)
             g1 == [g EXCEPT !.board = r.board]
         IN  IF r.died THEN {Raise(g1, "GameOverException")}
             ELSE IF r.locked
               THEN {LET g2 == elide_tetrises(g1)
                     IN  IF Running(g2) THEN [g2 EXCEPT !.master = FALSE]
                         ELSE g2}
             ELSE {elide_tetrises(g1)}
  ELSE put_new_tetrimono(g)

NextFrame(g) == IF Running(g) THEN [g EXCEPT !.frame = g.frame + 1] ELSE g

\* do_tick with `if` for `elif`: the tick that steps the animation goes on
\* to the gravity step
do_tick_if_for_elif(g) ==
  LET a == animate_elision(g)
      ga == IF ~g.running_elision_animation THEN g
            ELSE IF a.stopped
              THEN [a.g EXCEPT !.running_elision_animation = FALSE]
            ELSE a.g
  IN  IF Running(ga) /\ ga.frame % frames_per_gridcell(ga) = 0
        THEN {LET g2 == IF Running(g1) THEN display(g1) ELSE g1
              IN  [g |-> NextFrame(g2),
                   sent |-> IF Running(g2) /\ g2.master /\ g2.send_to_network
                              THEN serialize(g2) ELSE << >>]
              : g1 \in TickIdle(ga)}
      ELSE {[g |-> NextFrame(ga), sent |-> << >>]}

\* the engines do_tick can leave, each with the frame it sent (<< >>: none)
do_tick(g) ==
  IF g.running_elision_animation
    THEN LET a == animate_elision(g)
         IN  {[g |-> NextFrame(IF a.stopped
                                 THEN [a.g EXCEPT
                                         !.running_elision_animation = FALSE]
                               ELSE a.g),
               sent |-> << >>]}
  ELSE IF g.frame % frames_per_gridcell(g) = 0
    THEN {LET g2 == IF Running(g1) THEN display(g1) ELSE g1
          IN  [g |-> NextFrame(g2),
               sent |-> IF Running(g2) /\ g2.master /\ g2.send_to_network
                          THEN serialize(g2) ELSE << >>]
          : g1 \in TickIdle(g)}
  ELSE {[g |-> NextFrame(g), sent |-> << >>]}

\* ------------------------------------------------------------------------
\* The main loop of game(): one KEYDOWN event
RECURSIVE HardDropLoop(_)
HardDropLoop(g) ==
  LET r == do_fall(g.board, g.master, TRUE)
      g1 == [g EXCEPT !.board = r.board]
  IN  IF r.died THEN Raise(g1, "GameOverException")
      ELSE IF r.locked THEN g1
      ELSE HardDropLoop(add_points(g1, 1))

\* after a lock by key: elide_tetrises(), then put_new_tetrimono()
ElideThenSpawn(g) ==
  LET g1 == elide_tetrises(g)
  IN  IF Running(g1) THEN put_new_tetrimono(g1) ELSE {g1}

KeyBody(g, key) ==
  IF ~g.master THEN {g}
  ELSE CASE key = "LEFT" -> {[g EXCEPT !.board = falling_move_left(g.board)]}
         [] key = "RIGHT" -> {[g EXCEPT !.board = falling_move_right(g.board)]}
         [] key = "X" -> {[g EXCEPT !.board = falling_rotate(g.board, 1)]}
         [] key = "Z" -> {[g EXCEPT !.board = falling_rotate(g.board, -1)]}
         [] key = "DOWN" ->
              LET r == do_fall(g.board, g.master, FALSE)
                  g1 == [g EXCEPT !.board = r.board]
              IN  IF r.died THEN {Raise(g1, "GameOverException")}
                  ELSE IF r.locked THEN ElideThenSpawn(add_points(g1, 1))
                  ELSE {g1}
         [] key = "SPACE" ->
              IF has_falling_tetrimono(g.board)
                THEN LET g1 == HardDropLoop(g)
                     IN  IF Running(g1) THEN ElideThenSpawn(g1) ELSE {g1}
              ELSE {g}

\* the engines one key event can leave: ignored while the elision animation
\* runs, otherwise the key's branch and then display()
KeyEvent(g, key) ==
  IF g.running_elision_animation THEN {g}
  ELSE {IF Running(g1) THEN display(g1) ELSE g1 : g1 \in KeyBody(g, key)}

\* ------------------------------------------------------------------------
\* State.
\*   game[p]   the Game object of peer p
\*   net[p]    the frames relayed towards peer p and not yet read by its
\*             check_network, oldest first (client.py publishes every line
\*             one peer writes to the topic the other peer subscribes to)
\*   drawn[p]  how many pieces peer p's generator has handed out
\*   last      the last event an engine reacted to: which one, by which
\*             peer, and what it did (a key event on an engine that is not
\*             master is ignored and leaves no trace)
\*   returned  the pieces a generator driven on its own has returned from
\*             next(), oldest first (empty while an engine owns the
\*             generator: there drawn counts them)
VARIABLES game, net, drawn, last, returned

vars == << game, net, drawn, last, returned >>

Drew(g, g2) ==
  IF g2.next_pieces_buffer # g.next_pieces_buffer THEN 1 ELSE 0

TickRes(g, g2) ==
  IF ~Running(g2) THEN g2.exception
  ELSE IF g.running_elision_animation
    THEN (IF g2.running_elision_animation THEN "animate" ELSE "elided")
  ELSE IF g.frame % frames_per_gridcell(g) # 0 THEN "wait"
  ELSE IF ~g.master THEN "slave"
  ELSE IF ~has_falling_tetrimono(g.board) THEN "spawn"
  ELSE IF g2.master THEN "fall"
  ELSE "lock"

KeyRes(g, g2, key) ==
  IF ~Running(g2) THEN g2.exception
  ELSE IF ~g.master THEN "ignored"
  ELSE IF ~has_falling_tetrimono(g.board) THEN "nopiece"
  ELSE IF key \in {"DOWN", "SPACE"}
    THEN (IF key = "SPACE" \/ g2.points # g.points THEN "lock" ELSE "fall")
  ELSE IF g2.board = g.board THEN "refused"
  ELSE "done"

\* TIMER_EVENT: do_tick, while the tick counter is below max_frame and the
\* generator has handed out at most max_pieces pieces
TickWithin(p, max_frame, max_pieces) ==
  /\ Running(game[p])
  /\ game[p].frame < max_frame
  /\ \E r \in do_tick(game[p]) :
        /\ drawn[p] + Drew(game[p], r.g) <= max_pieces
        /\ r.sent # << >> => Len(net[Other(p)]) < MaxInFlight
        /\ game' = [game EXCEPT ![p] = r.g]
        /\ net' = IF r.sent # << >>
                    THEN [net EXCEPT ![Other(p)] = Append(@, r.sent)]
                  ELSE net
        /\ drawn' = [drawn EXCEPT ![p] = @ + Drew(game[p], r.g)]
        /\ last' = [op |-> "TICK", peer |-> p, res |-> TickRes(game[p], r.g)]
  /\ UNCHANGED returned

\* KEYDOWN: a key event that is not dropped because of the animation
KeyWithin(p, key, max_pieces) ==
  /\ Running(game[p])
  /\ ~game[p].running_elision_animation
  /\ game[p].frame % frames_per_gridcell(game[p]) <= KeyWindow
  /\ \E g2 \in KeyEvent(game[p], key) :
        /\ drawn[p] + Drew(game[p], g2) <= max_pieces
        /\ game' = [game EXCEPT ![p] = g2]
        /\ drawn' = [drawn EXCEPT ![p] = @ + Drew(game[p], g2)]
        /\ last' = IF game[p].master
                     THEN [op |-> key, peer |-> p,
                           res |-> KeyRes(game[p], g2, key)]
                   ELSE last
  /\ UNCHANGED << net, returned >>

\* CHECK_NETWORK_EVENT with a line to read
CheckNetwork(p) ==
  /\ Running(game[p])
  /\ game[p].send_to_network
  /\ net[p] # << >>
  /\ game' = [game EXCEPT ![p] = check_network(game[p], Head(net[p]))]
  /\ net' = [net EXCEPT ![p] = Tail(@)]
  /\ last' = [op |-> "NET", peer |-> p,
              res |-> IF Len(Head(net[p])) # GAME_WIDTH * GAME_HEIGHT + 1
                        THEN "badlength"
                      ELSE IF Head(net[p])[1] = 2 THEN "master" ELSE "mirror"]
  /\ UNCHANGED << drawn, returned >>

NoEvent == [op |-> "NONE", peer |-> 0, res |-> "NONE"]

\* ------------------------------------------------------------------------
\* Single player: game(multi=False) constructs Game(screen, font, master=True)
\* for peer 1; peer 2 does not exist (its record never changes).
Tick == TickWithin(1, MaxFrame, MaxPieces)
KeyLeft == KeyWithin(1, "LEFT", MaxPieces)
KeyRight == KeyWithin(1, "RIGHT", MaxPieces)
KeyRotateClockwise == KeyWithin(1, "X", MaxPieces)
KeyRotateCounterclockwise == KeyWithin(1, "Z", MaxPieces)
KeySoftDrop == KeyWithin(1, "DOWN", MaxPieces)
KeyHardDrop == KeyWithin(1, "SPACE", MaxPieces)

Absent == NewGame(FALSE, FALSE, << >>)

Init ==
  /\ \E b \in NewGeneratorBuffers :
        game = [p \in Peers |-> IF p = 1 THEN NewGame(TRUE, FALSE, b)
                                ELSE Absent]
  /\ net = [p \in Peers |-> << >>]
  /\ drawn = [p \in Peers |-> 0]
  /\ last = NoEvent
  /\ returned = << >>

Next ==
  \/ Tick
  \/ KeyLeft
  \/ KeyRight
  \/ KeyRotateClockwise
  \/ KeyRotateCounterclockwise
  \/ KeySoftDrop
  \/ KeyHardDrop

Spec == Init /\ [][Next]_vars

\* Single player in which the player only ever presses the down key, followed
\* over more ticks: gravity moves and locks the pieces.
GravityTick == TickWithin(1, MaxFrameGravity, MaxPieces)

NextGravity ==
  \/ GravityTick
  \/ KeySoftDrop

SpecGravity == Init /\ [][NextGravity]_vars

\* ------------------------------------------------------------------------
\* Two peers: main() starts game(multi=True, master=True) on the inviting
\* side (peer 1) and game(multi=True, master=False) on the joining side
\* (peer 2).  The two timers run at the same rate.
InSkew(p) == game[p].frame - game[Other(p)].frame < MaxSkew

PeerTick(p) == InSkew(p) /\ TickWithin(p, MaxFrameMulti, MaxPiecesMulti)
PeerKeyLeft(p) == KeyWithin(p, "LEFT", MaxPiecesMulti)
PeerKeyRight(p) == KeyWithin(p, "RIGHT", MaxPiecesMulti)
PeerKeyRotateClockwise(p) == KeyWithin(p, "X", MaxPiecesMulti)
PeerKeyRotateCounterclockwise(p) == KeyWithin(p, "Z", MaxPiecesMulti)
PeerKeySoftDrop(p) == KeyWithin(p, "DOWN", MaxPiecesMulti)
PeerKeyHardDrop(p) == KeyWithin(p, "SPACE", MaxPiecesMulti)

\* the generator buffers the session is explored with: the inviting side
\* starts with the long piece or the T, the joining side with the long one
InviterBuffers == {b \in NewGeneratorBuffers : b[1] \in {0, 5} /\ b[2] = 0}
JoinerBuffers == {b \in NewGeneratorBuffers : b[1] = 0 /\ b[2] = 0}

InitMulti ==
  /\ \E b1 \in InviterBuffers, b2 \in JoinerBuffers :
        game = [p \in Peers |-> IF p = 1 THEN NewGame(TRUE, TRUE, b1)
                                ELSE NewGame(FALSE, TRUE, b2)]
  /\ net = [p \in Peers |-> << >>]
  /\ drawn = [p \in Peers |-> 0]
  /\ last = NoEvent
  /\ returned = << >>

NextMulti ==
  \E p \in Peers :
     \/ PeerTick(p)
     \/ PeerKeyLeft(p)
     \/ PeerKeyRight(p)
     \/ PeerKeyRotateClockwise(p)
     \/ PeerKeyRotateCounterclockwise(p)
     \/ PeerKeySoftDrop(p)
     \/ PeerKeyHardDrop(p)
     \/ CheckNetwork(p)

SpecMulti == InitMulti /\ [][NextMulti]_vars

\* ------------------------------------------------------------------------
\* Single player, later in a game: the long piece stands upright in a
\* one-column well of a stack of up to four rows.  Each stack row is filled
\* up to the well ("A": the long piece completes it) or has a second gap in
\* the last column ("B": it stays incomplete).  lines is drawn from
\* StartLines, level is what add_points_for_elision made of it, and the tick
\* counter stands at a gravity step.  The other start is the long piece lying
\* in the top row of an empty board, as put_new_tetrimono leaves it.
WellCol == (GAME_WIDTH - PIECE_STARTING_WIDTH) \div 2 + 1
StartLines == {0, 7, 18}
StackRow(pattern) ==
  [c \in Cols |->
     IF c = WellCol \/ (pattern = "B" /\ c = GAME_WIDTH - 1) THEN EmptyBlot
     ELSE Blot("PLACED", 1, FALSE)]

\* stack: the patterns of the stack rows, bottom row first
StackBoard(stack) ==
  [r \in Rows |->
     IF GAME_HEIGHT - r <= Len(stack) THEN StackRow(stack[GAME_HEIGHT - r])
     ELSE EmptyRow]

UprightLongPiece(b) ==
  [r \in Rows |-> [c \in Cols |->
     IF c = WellCol /\ r <= 3 THEN Blot("FALLING", 0, r = 1) ELSE b[r][c]]]

LyingLongPiece(b) == SpawnLoop(b, 0, 1).board

Stacks == UNION {[1 .. k -> {"A", "B"}] : k \in 0 .. 4}

StackStarts ==
  {UprightLongPiece(StackBoard(stack)) : stack \in Stacks}
  \cup {LyingLongPiece(EmptyBoard)}

LaterGame(board, lines, buffer) ==
  LET g == [NewGame(TRUE, FALSE, buffer) EXCEPT
              !.board = board, !.lines = lines, !.level = lines \div 10]
  IN  [g EXCEPT !.frame = frames_per_gridcell(g)]

InitElide ==
  /\ \E board \in StackStarts, lines \in StartLines,
        b \in {x \in NewGeneratorBuffers : x[1] = 0 /\ x[2] = 0} :
        game = [p \in Peers |->
                  IF p = 1 THEN LaterGame(board, lines, Tail(b)) ELSE Absent]
  /\ net = [p \in Peers |-> << >>]
  /\ drawn = [p \in Peers |-> IF p = 1 THEN 1 ELSE 0]
  /\ last = NoEvent
  /\ returned = << >>

NextElide ==
  \/ Tick
  \/ KeySoftDrop
  \/ KeyHardDrop

SpecElide == InitElide /\ [][NextElide]_vars

\* ------------------------------------------------------------------------
\* What check_network does with the lines the relay hands it.  client.py
\* writes every payload published on the topic its side subscribes to, so a
\* line is either a frame the other engine sent or the payload of any other
\* publisher on that topic.  The inviting side plays (ticks and hard drops);
\* both sides read their lines.  As with the keys, the lines are followed
\* only while the playing side is within KeyWindow frames of a gravity step:
\* the ticks in between only count frames.
\* the cells of the foreign frames: the long piece in the top row over a
\* bottom row of placed blots with a gap in its first column
ForeignBoards ==
  { [i \in 1 .. (GAME_HEIGHT * GAME_WIDTH) |->
       IF i = 2 THEN 60
       ELSE IF i <= 4 THEN 30
       ELSE IF i > (GAME_HEIGHT - 1) * GAME_WIDTH + 1 THEN 3
       ELSE 1] }

Owners == 0 .. 3

ForeignLines ==
  { << owner >> \o cells : owner \in Owners, cells \in ForeignBoards }
  \cup { << 2 >> }
  \cup { << 2 >> \o SubSeq(cells, 1, Len(cells) - 1) : cells \in ForeignBoards }
  \cup { << 2 >> \o cells \o << 3 >> : cells \in ForeignBoards }

AtGravityStep ==
  game[1].frame % frames_per_gridcell(game[1]) <= KeyWindow

Publish(p) ==
  /\ AtGravityStep
  /\ Len(net[1]) + Len(net[2]) < MaxForeign
  /\ \E line \in ForeignLines : net' = [net EXCEPT ![p] = Append(@, line)]
  /\ UNCHANGED << game, drawn, last, returned >>

Receive(p) == AtGravityStep /\ CheckNetwork(p)

SenderTick == TickWithin(1, MaxFrameMulti, MaxPieces)
SenderKeyHardDrop == KeyWithin(1, "SPACE", MaxPieces)

NextNet ==
  \/ SenderTick
  \/ SenderKeyHardDrop
  \/ \E p \in Peers : Receive(p)
  \/ \E p \in Peers : Publish(p)

SpecNet == InitMulti /\ [][NextNet]_vars

\* ------------------------------------------------------------------------
\* The generator on its own: RandomPieceGenerator() is constructed and then
\* next() and peek() are called in any order.  Its buffer is the
\* next_pieces_buffer of engine 1, which never ticks here.
GeneratorCallNext ==
  /\ drawn[1] < MaxNext
  /\ \E n \in GeneratorNext(game[1].next_pieces_buffer) :
        /\ game' = [game EXCEPT ![1].next_pieces_buffer = n.buffer]
        /\ returned' = Append(returned, n.piece)
        /\ last' = [op |-> "NEXT", peer |-> 1, res |-> n.piece]
  /\ drawn' = [drawn EXCEPT ![1] = @ + 1]
  /\ UNCHANGED net

GeneratorCallPeek ==
  /\ last' = [op |-> "PEEK", peer |-> 1,
              res |-> peek(game[1].next_pieces_buffer)]
  /\ UNCHANGED << game, net, drawn, returned >>

NextGenerator ==
  \/ GeneratorCallNext
  \/ GeneratorCallPeek

SpecGenerator == Init /\ [][NextGenerator]_vars

\* ========================================================================
\* Properties.  The single-player engine is game[1].
Cells == Rows \X Cols

FallingCells(b) == {rc \in Cells : is_falling(b[rc[1]][rc[2]])}
PlacedCells(b) == {rc \in Cells : is_placed(b[rc[1]][rc[2]])}
CenterCells(b) == {rc \in FallingCells(b) : is_center_blot(b[rc[1]][rc[2]])}

\* the offsets <<row, col>> of a catalog piece's cells from its center cell
ArrangementCells(id) ==
  {hw \in (1 .. PIECE_STARTING_HEIGHT) \X (1 .. PIECE_STARTING_WIDTH) :
     PIECES[id].arrangement[hw[1]][hw[2]] # 0}

ArrangementCenter(id) ==
  CHOOSE hw \in ArrangementCells(id) :
     PIECES[id].arrangement[hw[1]][hw[2]] = 2

PieceOffsets(id) ==
  LET ctr == ArrangementCenter(id)
  IN  {<< hw[1] - ctr[1], hw[2] - ctr[2] >> : hw \in ArrangementCells(id)}

\* an offset turned by a quarter turn, turns times clockwise
RECURSIVE Turned(_, _)
Turned(off, turns) ==
  IF turns = 0 THEN off
  ELSE Turned(<< off[2], 0 - off[1] >>, turns - 1)

\* the falling cells of b are one catalog piece in one of its orientations
\* around its only center cell, all carrying that piece's id
IsOnePiece(b) ==
  LET falling == FallingCells(b)
      centers == {rc \in falling : is_center_blot(b[rc[1]][rc[2]])}
  IN  /\ Cardinality(falling) = 4
      /\ Cardinality(centers) = 1
      /\ LET ctr == CHOOSE rc \in centers : TRUE
             id == b[ctr[1]][ctr[2]].piece
             offsets == PieceOffsets(id)
         IN  /\ id \in PieceIds
             /\ \A rc \in falling : b[rc[1]][rc[2]].piece = id
             /\ \E turns \in 0 .. 3 :
                   falling =
                     {<< ctr[1] + Turned(off, turns)[1],
                         ctr[2] + Turned(off, turns)[2] >> : off \in offsets}

\* C1: in every state of a running single-player engine the board holds no
\* falling cell, or exactly the four falling cells of one catalog piece, all
\* with that piece's id and exactly one of them the center
C1_OneFallingPiece ==
  Running(game[1]) =>
     \/ ~has_falling_tetrimono(game[1].board)
     \/ IsOnePiece(game[1].board)

\* C1 witness: the falling piece has just been turned clockwise on a board
\* that already holds placed cells
C1_Witness ==
  /\ last.op = "X" /\ last.res = "done"
  /\ Running(game[1])
  /\ IsOnePiece(game[1].board)
  /\ PlacedCells(game[1].board) # {}

\* C5: do_fall leaves every placed cell as it was, and when it locks, the
\* cells that were falling are the new placed cells, with their piece, and no
\* falling cell remains
C5_FallKeepsPlaced ==
  LET b == game[1].board
      r == do_fall(b, TRUE, FALSE)
  IN  /\ \A rc \in Cells :
            is_placed(b[rc[1]][rc[2]]) => r.board[rc[1]][rc[2]] = b[rc[1]][rc[2]]
      /\ r.locked =>
            /\ FallingCells(r.board) = {}
            /\ PlacedCells(r.board) = PlacedCells(b) \cup FallingCells(b)
            /\ \A rc \in FallingCells(b) :
                  r.board[rc[1]][rc[2]].piece = b[rc[1]][rc[2]].piece

\* C5 witness: gravity has just locked a second piece on a board that already
\* held a placed one
C5_Witness ==
  /\ last.op = "TICK" /\ last.res = "lock"
  /\ Cardinality(PlacedCells(game[1].board)) = 8
  /\ FallingCells(game[1].board) = {}

\* where falling_rotate wants to put the blot at rc
RotationTarget(ctr, rc, rotation) ==
  << ctr[1] + rotation * (rc[2] - ctr[2]), ctr[2] - rotation * (rc[1] - ctr[1]) >>

\* some target cell of the rotation is off the board or taken by a placed
\* blot or by the center
RotationBlocked(b, rotation) ==
  /\ CenterCells(b) # {}
  /\ LET ctr == falling_get_center_blot(b)
     IN  \E rc \in FallingCells(b) \ {ctr} :
            LET t == RotationTarget(ctr, rc, rotation)
            IN  \/ t \notin Cells
                \/ t = ctr
                \/ is_placed(b[t[1]][t[2]])

RotationBlockedByPlaced(b, rotation) ==
  /\ CenterCells(b) # {}
  /\ LET ctr == falling_get_center_blot(b)
     IN  /\ should_rotate(b[ctr[1]][ctr[2]])
         /\ \E rc \in FallingCells(b) \ {ctr} :
               LET t == RotationTarget(ctr, rc, rotation)
               IN  t \in Cells /\ is_placed(b[t[1]][t[2]])

\* C6: a rotation, clockwise or counterclockwise, with a target cell off the
\* board or occupied leaves the board exactly as it was
C6_RotateAllOrNothing ==
  \A rotation \in {1, -1} :
     RotationBlocked(game[1].board, rotation) =>
        falling_rotate(game[1].board, rotation) = game[1].board

\* C6 witness: the x key was pressed while a placed blot was in the way of
\* the clockwise rotation
C6_Witness ==
  /\ last.op = "X" /\ last.res = "refused"
  /\ RotationBlockedByPlaced(game[1].board, 1)

\* a falling cell is in the boundary column of that side, or has a placed
\* cell next to it on that side (dir: -1 left, 1 right)
MoveBlocked(b, dir) ==
  \E rc \in FallingCells(b) :
     \/ rc[2] + dir \notin Cols
     \/ is_placed(b[rc[1]][rc[2] + dir])

\* every falling blot one column over, everything else as it was
Shifted(b, dir) ==
  [r \in Rows |-> [c \in Cols |->
     IF c - dir \in Cols /\ is_falling(b[r][c - dir]) THEN b[r][c - dir]
     ELSE IF is_falling(b[r][c]) THEN EmptyBlot
     ELSE b[r][c]]]

\* C10: a move to the left or right changes nothing when a falling cell is
\* at the wall or next to a placed cell on that side, and otherwise shifts
\* exactly the falling cells by one column
C10_MoveAllOrNothing ==
  LET b == game[1].board
  IN  /\ falling_move_left(b) = IF MoveBlocked(b, -1) THEN b ELSE Shifted(b, -1)
      /\ falling_move_right(b) = IF MoveBlocked(b, 1) THEN b ELSE Shifted(b, 1)

\* C10 witness: the left key was pressed with the piece off the wall but
\* against a placed cell
C10_Witness ==
  /\ last.op = "LEFT" /\ last.res = "refused"
  /\ \A rc \in FallingCells(game[1].board) : rc[2] > 0
  /\ MoveBlocked(game[1].board, -1)

\* C9: a spawn that ends in GameOver has written no cell of the new piece:
\* the board of an engine stopped by GameOver holds no falling cell
C9_FailedSpawnWritesNothing ==
  game[1].exception = "GameOverException" =>
     ~has_falling_tetrimono(game[1].board)

\* C2: when the piece of a master engine locks on a gravity tick in a
\* multiplayer session, that tick sends a frame whose ownership byte is 2 to
\* the other peer
C2_LockSendsOwnership ==
  [][\A p \in Peers :
       (last'.op = "TICK" /\ last'.peer = p /\ last'.res = "lock"
          /\ game'[p] # game[p] /\ game[p].master)
       => /\ Len(net'[Other(p)]) = Len(net[Other(p)]) + 1
          /\ net'[Other(p)][Len(net'[Other(p)])][1] = 2]_vars

\* C3: the session never reaches a state in which both engines run with
\* master = false and no frame with ownership byte 2 is in flight
C3_OwnershipNeverLost ==
  ~ (\A p \in Peers :
       /\ Running(game[p])
       /\ ~game[p].master
       /\ \A i \in DOMAIN net[p] : net[p][i][1] # 2)

\* C4: a single-player tick at frame % frames_per_gridcell = 0 with no
\* elision animation running and no falling piece on the board spawns the
\* next piece or ends in GameOver
C4_IdleTickSpawns ==
  [][(/\ Running(game[1])
      /\ ~game[1].running_elision_animation
      /\ game[1].frame % frames_per_gridcell(game[1]) = 0
      /\ ~has_falling_tetrimono(game[1].board)
      /\ \/ game'[1].frame = game[1].frame + 1
         \/ ~Running(game'[1]))
     => \/ has_falling_tetrimono(game'[1].board)
        \/ game'[1].exception = "GameOverException"]_vars

\* the rows in which every cell is placed / the other rows, top to bottom
AllPlaced(b, r) == \A c \in Cols : b[r][c].type = "PLACED"

FullRowsOf(b) ==
  SelectSeq([i \in 1 .. GAME_HEIGHT |-> i - 1], LAMBDA r : AllPlaced(b, r))

KeptRowsOf(b) ==
  SelectSeq([i \in 1 .. GAME_HEIGHT |-> i - 1], LAMBDA r : ~AllPlaced(b, r))

\* the board without its full rows: the kept rows in their order at the
\* bottom, one empty row on top for each full row
Compact(b) ==
  LET kept == KeptRowsOf(b)
      gone == GAME_HEIGHT - Len(kept)
  IN  [r \in Rows |->
         IF r < gone THEN [c \in Cols |-> Blot("EMPTY", None, FALSE)]
         ELSE b[kept[r - gone + 1]]]

\* how many rows the falling piece can go down
CanShiftDown(b, k) ==
  \A rc \in FallingCells(b) :
     rc[1] + k \in Rows /\ ~is_placed(b[rc[1] + k][rc[2]])

DropDistance(b) ==
  CHOOSE d \in 0 .. GAME_HEIGHT :
     /\ \A k \in 1 .. d : CanShiftDown(b, k)
     /\ ~CanShiftDown(b, d + 1)

ElisionStarts == ~game[1].running_elision_animation
                 /\ game'[1].running_elision_animation

ElisionEnds == game[1].running_elision_animation
               /\ ~game'[1].running_elision_animation

\* C7: the rows picked for elision are exactly the rows in which every cell
\* is placed; the step that ends the animation removes all of them, puts one
\* empty row on top for each and keeps the other rows in their order, so the
\* board keeps GAME_HEIGHT rows of GAME_WIDTH cells; a gravity lock that fills
\* only the bottom row at level 0 adds 40 points
C7_ElideCompacts ==
  [][/\ game'[1].running_elision_animation =>
           game'[1].elision_animation_generator.rows
              = FullRowsOf(game'[1].board)
     /\ ElisionEnds =>
           /\ game'[1].board = Compact(game[1].board)
           /\ DOMAIN game'[1].board = Rows
           /\ \A r \in Rows : DOMAIN game'[1].board[r] = Cols
     /\ (/\ ElisionStarts
         /\ last'.op = "TICK"
         /\ game[1].level = 0
         /\ FullRowsOf(game'[1].board) = << GAME_HEIGHT - 1 >>)
        => game'[1].points = game[1].points + 40]_vars

\* C7 witness: the animation has just removed two or more rows from a board
\* that keeps placed cells in other rows
C7_Witness ==
  /\ last.op = "TICK" /\ last.res = "elided"
  /\ Len(game[1].elision_animation_generator.rows) >= 2
  /\ PlacedCells(game[1].board) # {}

ScoreTable == (1 :> 40) @@ (2 :> 100) @@ (3 :> 300) @@ (4 :> 1200)

\* C8: a lock that fills n rows adds ScoreTable[n] * (level + 1) points with
\* the level before the clear (on top of the points for the drop), adds n to
\* lines and sets level to lines \div 10; no other step changes lines or
\* level, and level = lines \div 10 in every state
C8_ElisionScore ==
  [][LET g == game[1]
         h == game'[1]
         n == Len(FullRowsOf(h.board))
         drop == CASE last'.op = "SPACE" -> DropDistance(g.board)
                   [] last'.op = "DOWN" -> 1
                   [] OTHER -> 0
     IN  /\ ElisionStarts =>
               /\ n \in 1 .. 4
               /\ h.points = g.points + drop + ScoreTable[n] * (g.level + 1)
               /\ h.lines = g.lines + n
               /\ h.level = (g.lines + n) \div 10
         /\ ~ElisionStarts => h.lines = g.lines /\ h.level = g.level
         /\ h.level = h.lines \div 10]_vars

\* C8 witness: four rows cleared at once took lines from 7 to 11 and the
\* level from 0 to 1
C8_Witness ==
  /\ last.res = "lock"
  /\ game[1].running_elision_animation
  /\ Len(game[1].elision_animation_generator.rows) = 4
  /\ game[1].lines = 11 /\ game[1].level = 1

\* the k-th batch of seven returned pieces after the seed, as far as it has
\* been returned
BatchOf(seq, k) ==
  {i \in 1 .. Len(seq) : i >= 2 + 7 * k /\ i <= 8 + 7 * k}

\* C14: after the seed piece, the pieces next() returns fall into consecutive
\* batches of seven; no piece comes twice in a batch, and a batch returned
\* in full holds every catalog piece
C14_BatchesArePermutations ==
  /\ Len(returned) >= 1 => returned[1] \in Seeds
  /\ \A k \in 0 .. (MaxNext \div 7) :
        /\ \A i, j \in BatchOf(returned, k) :
              returned[i] = returned[j] => i = j
        /\ Cardinality(BatchOf(returned, k)) = 7 =>
              {returned[i] : i \in BatchOf(returned, k)} = PieceIds

\* C14 witness: the seed and two full batches have been returned
C14_Witness ==
  /\ last.op = "NEXT"
  /\ Len(returned) = 15

\* C15: the buffer is never empty, peek() leaves the buffer as it is and
\* returns the first piece of the buffer, and the next() that follows a peek()
\* returns the piece peek() returned
C15_PeekIsNext ==
  [][/\ Len(game'[1].next_pieces_buffer) >= 1
     /\ Len(game[1].next_pieces_buffer) >= 1
     /\ (last'.op = "PEEK" /\ returned' = returned) =>
           /\ game' = game
           /\ last'.res = game[1].next_pieces_buffer[1]
     /\ (last.op = "PEEK" /\ returned' # returned) =>
           /\ last'.res = last.res
           /\ returned'[Len(returned')] = last.res]_vars

\* C15 witness: peek() has just been called on a buffer that is down to its
\* last two pieces, after six calls of next()
C15_Witness ==
  /\ last.op = "PEEK"
  /\ Len(returned) = 6
  /\ Len(game[1].next_pieces_buffer) = 2

\* C17: a soft drop that moves the piece down one row adds one point
C17_SoftDropPoint ==
  [][(/\ last'.op = "DOWN"
      /\ has_falling_tetrimono(game[1].board)
      /\ game'[1].board # game[1].board
      /\ \A r \in Rows, c \in Cols :
            is_falling(game[1].board[r][c]) =>
               /\ r + 1 \in Rows
               /\ game'[1].board[r + 1][c] = game[1].board[r][c])
     => game'[1].points = game[1].points + 1]_vars

\* a falling cell is in the bottom row or right above a placed cell
FallBlocked(b) ==
  \E rc \in FallingCells(b) :
     \/ rc[1] = GAME_HEIGHT - 1
     \/ is_placed(b[rc[1] + 1][rc[2]])

\* every falling blot turned into a placed blot of its piece, in place
Frozen(b) ==
  [r \in Rows |-> [c \in Cols |->
     IF b[r][c].type = "FALLING"
       THEN [type |-> "PLACED", piece |-> b[r][c].piece, center |-> FALSE]
     ELSE b[r][c]]]

\* every falling blot one row lower, everything else as it was
ShiftedDown(b) ==
  [r \in Rows |-> [c \in Cols |->
     IF r - 1 \in Rows /\ is_falling(b[r - 1][c]) THEN b[r - 1][c]
     ELSE IF is_falling(b[r][c]) THEN EmptyBlot
     ELSE b[r][c]]]

\* C19: on a master engine do_fall locks the piece where it is when a falling
\* cell is in the bottom row or right above a placed cell, and otherwise
\* returns false with every falling cell one row lower and nothing else
\* changed; it never raises
C19_FallOutcomes ==
  LET b == game[1].board
      r == do_fall(b, TRUE, FALSE)
  IN  /\ ~r.died
      /\ r.locked = FallBlocked(b)
      /\ r.board = IF FallBlocked(b) THEN Frozen(b) ELSE ShiftedDown(b)

\* C19 witness: a soft drop has just moved the piece down onto a placed cell,
\* off the bottom row
C19_Witness ==
  /\ last.op = "DOWN" /\ last.res = "fall"
  /\ FallBlocked(game[1].board)
  /\ \A rc \in FallingCells(game[1].board) : rc[1] < GAME_HEIGHT - 1

\* the board after a rotation that goes through: every non-center falling
\* blot at its target, the cells they left empty
Rotated(b, rotation) ==
  LET ctr == falling_get_center_blot(b)
      moving == FallingCells(b) \ {ctr}
      source(t) == CHOOSE rc \in moving : RotationTarget(ctr, rc, rotation) = t
      targets == {RotationTarget(ctr, rc, rotation) : rc \in moving}
  IN  [r \in Rows |-> [c \in Cols |->
         IF << r, c >> \in targets
           THEN b[source(<< r, c >>)[1]][source(<< r, c >>)[2]]
         ELSE IF << r, c >> \in moving THEN EmptyBlot
         ELSE b[r][c]]]

\* C20: a rotation of a rotatable piece that is not blocked leaves the
\* center where it is, puts each other falling blot from offset (dr, dc) to
\* offset (rotation * dc, -rotation * dr), and changes no placed cell and
\* not the number of falling cells
C20_RotateTurns ==
  \A rotation \in {1, -1} :
     LET b == game[1].board
         ctr == falling_get_center_blot(b)
         after == falling_rotate(b, rotation)
     IN  (/\ CenterCells(b) # {}
          /\ should_rotate(b[ctr[1]][ctr[2]])
          /\ ~RotationBlocked(b, rotation))
         => /\ after = Rotated(b, rotation)
            /\ after[ctr[1]][ctr[2]] = b[ctr[1]][ctr[2]]
            /\ Cardinality(FallingCells(after)) = Cardinality(FallingCells(b))
            /\ PlacedCells(after) = PlacedCells(b)

\* C20 witness: the z key has just turned the piece counterclockwise on a
\* board with placed cells
C20_Witness ==
  /\ last.op = "Z" /\ last.res = "done"
  /\ CenterCells(game[1].board) # {}
  /\ PlacedCells(game[1].board) # {}

\* the step is a check_network of peer p: it takes the oldest line off the
\* relay
Reads(p) == net[p] # << >> /\ net'[p] = Tail(net[p])

FrameLength == GAME_WIDTH * GAME_HEIGHT + 1

\* C11: a line whose length is not GAME_WIDTH * GAME_HEIGHT + 1 is ignored:
\* the engine that reads it, its board and master flag included, is the same
\* afterwards, and no exception is raised
C11_BadLengthIgnored ==
  [][\A p \in Peers :
       (Reads(p) /\ Len(Head(net[p])) # FrameLength)
       => /\ game'[p] = game[p]
          /\ game'[p].exception = "None"]_vars

\* C11 witness: the joining side, mirroring the board of the inviting side,
\* has just dropped a line of the wrong length
C11_Witness ==
  /\ last.op = "NET" /\ last.peer = 2 /\ last.res = "badlength"
  /\ has_falling_tetrimono(game[2].board)
  /\ ~game[2].master

\* the byte of one cell
CellByte(blot) ==
  CASE blot.type = "EMPTY" -> 1
    [] blot.type = "PLACED" -> blot.piece + 2
    [] blot.type = "FALLING" /\ ~blot.center -> blot.piece + 30
    [] blot.type = "FALLING" /\ blot.center -> blot.piece + 60

\* C12: the frame of an engine holds, after the ownership byte, the byte of
\* each cell in row-major order, and unserialize of that frame on either
\* engine leaves it with the sender's board, cell for cell
C12_FrameRoundTrip ==
  \A p \in Peers :
     LET frame == serialize(game[p])
     IN  /\ Len(frame) = FrameLength
         /\ \A r \in Rows, c \in Cols :
               frame[1 + r * GAME_WIDTH + c + 1] = CellByte(game[p].board[r][c])
         /\ \A q \in Peers :
               unserialize(game[q], frame).board = game[p].board

\* C12 witness: after the second gravity step the joining side has just read
\* a frame and shows the board of the inviting side, with the placed blots of
\* its first piece (the long one or the T) and a falling piece with its center
C12_Witness ==
  /\ last.op = "NET" /\ last.peer = 2 /\ last.res = "mirror"
  /\ game[2].board = game[1].board
  /\ PlacedCells(game[1].board) # {}
  /\ \A rc \in PlacedCells(game[1].board) :
        game[1].board[rc[1]][rc[2]].piece \in {0, 5}
  /\ CenterCells(game[1].board) # {}
  /\ game[1].frame > frames_per_gridcell(game[1])

\* C13: reading a frame of the right length makes the reader master when the
\* ownership byte is 2 and leaves its master flag as it is for any other
\* byte; no line takes the master flag away
C13_OwnershipByte ==
  [][\A p \in Peers :
       Reads(p) =>
          /\ Len(Head(net[p])) = FrameLength =>
                game'[p].master = (game[p].master \/ Head(net[p])[1] = 2)
          /\ game[p].master => game'[p].master]_vars

\* C13 witness: the joining side has just become master by a frame with
\* ownership byte 2
C13_Witness ==
  /\ last.op = "NET" /\ last.peer = 2 /\ last.res = "master"
  /\ game[2].master

\* what unserialize on engine q makes of the frame of engine p
Loaded(p, q) == unserialize(game[q], serialize(game[p]))

SameCells(b1, b2) ==
  \A r \in Rows, c \in Cols :
     b1[r][c].type = b2[r][c].type /\ b1[r][c].piece = b2[r][c].piece

C16_AnimationSteps ==
  [][LET g == game[1]
         h == game'[1]
         x == g.elision_animation_generator.x
     IN  /\ h.running_elision_animation =>
               h.elision_animation_generator.x <= GAME_WIDTH
         /\ (g.running_elision_animation /\ h # g) =>
               /\ h.frame = g.frame + 1
               /\ h.elision_animation_generator.x = x + 1
               /\ h.points = g.points /\ h.lines = g.lines
               /\ h.level = g.level
               /\ h.next_pieces_buffer = g.next_pieces_buffer
               /\ h.running_elision_animation = (x < GAME_WIDTH)
               /\ h.board = IF x < GAME_WIDTH THEN g.board
                            ELSE Compact(g.board)
               /\ ~h.running_elision_animation => FullRowsOf(h.board) = << >>]_vars

\* C16 witness: the animation has just ended on a gravity step with the next
\* piece, spawned by the locking key, still in the top rows
C16_Witness ==
  /\ last.op = "TICK" /\ last.res = "elided"
  /\ ~game[1].running_elision_animation
  /\ game[1].elision_animation_generator.x = GAME_WIDTH + 1
  /\ has_falling_tetrimono(game[1].board)


\* C21: in the two-peer session started with the inviting engine master and
\* the joining engine not, the two engines are never both master, whatever
\* the order of ticks, keys and frame deliveries
C21_NeverBothMaster ==
  ~ (game[1].master /\ game[2].master)

\* C21 witness: the joining engine has just read a frame of the inviting
\* engine, which is master and shows the falling piece on both sides
C21_Witness ==
  /\ last.op = "NET" /\ last.peer = 2
  /\ game[1].master /\ ~game[2].master
  /\ game[1].frame > 0 /\ game[2].frame > 0
  /\ has_falling_tetrimono(game[2].board)


\* C22: a tick on an engine whose master flag is false changes neither its
\* board nor its points, lines or level, and the board of an engine that is
\* not master changes only when check_network parses a frame
C22_SlaveTickChangesNothing ==
  [][LET g == game[1]
         h == game'[1]
     IN  /\ (~g.master /\ h.frame = g.frame + 1) =>
               /\ h.board = g.board
               /\ h.points = g.points
               /\ h.lines = g.lines
               /\ h.level = g.level
         /\ (~g.master /\ h.board # g.board) => last'.op = "NET"]_vars


\* what the cells that do_fall hands to put_or_die hold at the moment of the
\* call, in the order of the calls, up to the blot that finds a placed blot
\* below it
RECURSIVE PutTargets(_, _, _)
PutTargets(b, falling, k) ==
  IF k > Len(falling) THEN << >>
  ELSE LET row == falling[k][1]
           col == falling[k][2]
       IN  IF is_placed(b[row + 1][col]) THEN << >>
           ELSE << b[row + 1][col].type >>
                \o PutTargets(Put(Put(b, row + 1, col, b[row][col]),
                                  row, col, EmptyBlot),
                              falling, k + 1)

\* C24: do_fall never ends in GameOver: on every reachable board each cell
\* it hands to put_or_die is empty at that moment, so neither do_fall nor the
\* shadow computed with it raises
C24_FallNeverDies ==
  LET b == game[1].board
      targets == IF \E col \in Cols : is_falling(b[GAME_HEIGHT - 1][col])
                   THEN << >>
                 ELSE PutTargets(b, FallingInScanOrder(b), 1)
  IN  /\ \A k \in DOMAIN targets : targets[k] = "EMPTY"
      /\ ~do_fall(b, TRUE, TRUE).died
      /\ ~ShadowFall(b).died

\* C24 witness: gravity or a soft drop has just moved down a piece that has
\* one falling cell right above another, over a board with placed cells, and
\* the next do_fall finds a placed cell below it
C24_Witness ==
  /\ last.op \in {"TICK", "DOWN"} /\ last.res = "fall"
  /\ PlacedCells(game[1].board) # {}
  /\ \E rc \in FallingCells(game[1].board) :
        << rc[1] + 1, rc[2] >> \in FallingCells(game[1].board)
  /\ \E rc \in FallingCells(game[1].board) :
        rc[1] + 1 \in Rows /\ is_placed(game[1].board[rc[1] + 1][rc[2]])


\* the values a byte of a frame takes
FrameBytes == (1 .. 8) \cup (30 .. 36) \cup (60 .. 66)

\* C23: every frame serialize produces, and every frame on its way between
\* the two peers, has GAME_WIDTH * GAME_HEIGHT + 1 bytes, all of them in
\* 1..8, 30..36 or 60..66 and so none of them the newline 10; the length
\* check of check_network accepts every frame a peer sent
C23_FrameBytes ==
  /\ \A p \in Peers :
        LET frame == serialize(game[p])
        IN  /\ Len(frame) = GAME_WIDTH * GAME_HEIGHT + 1
            /\ \A i \in DOMAIN frame :
                  frame[i] \in FrameBytes /\ frame[i] # 10
  /\ \A p \in Peers : \A k \in DOMAIN net[p] :
        /\ Len(net[p][k]) = GAME_WIDTH * GAME_HEIGHT + 1
        /\ \A i \in DOMAIN net[p][k] : net[p][k][i] \in FrameBytes
  /\ last.op = "NET" => last.res # "badlength"

\* C23 witness: the joining engine has just accepted a frame of the
\* inviting engine that carries a falling piece with its centre, and the
\* next frame is already on its way
C23_Witness ==
  /\ last.op = "NET" /\ last.peer = 2 /\ last.res = "mirror"
  /\ CenterCells(game[2].board) # {}
  /\ Cardinality(FallingCells(game[2].board)) = 4
  /\ net[2] # << >>


\* C25: in single player the clear routine never finds more than four full
\* rows, so the lookup of the points never fails; full rows are on the board
\* only while their animation runs, and nothing is scored for rows during
\* it, so no full row is scored twice
C25_AtMostFourRows ==
  [][LET g == game[1]
         h == game'[1]
     IN  /\ h.exception # "KeyError"
         /\ Len(RowsToElide(h.board)) <= 4
         /\ ~h.running_elision_animation => Len(RowsToElide(h.board)) = 0
         /\ h.lines # g.lines =>
               /\ ~g.running_elision_animation
               /\ Len(RowsToElide(g.board)) = 0
               /\ h.lines - g.lines = Len(RowsToElide(h.board))
               /\ h.lines - g.lines \in DOMAIN multiplier_for_line_count
         /\ g.running_elision_animation =>
               h.points = g.points /\ h.lines = g.lines]_vars

\* C25 witness: a hard drop has just filled four rows at once, they are
\* scored and still on the board, and the next piece is already falling
C25_Witness ==
  /\ last.op = "SPACE" /\ last.res = "lock"
  /\ game[1].running_elision_animation
  /\ Len(RowsToElide(game[1].board)) = 4
  /\ game[1].lines = 4
  /\ has_falling_tetrimono(game[1].board)

====
